---------------------------- MODULE Spec2Model ----------------------------
(***************************************************************************)
(* odpy.common: log-file tailing (tail, batchIsFinished), the loggers'     *)
(* handlers and files (initLogging, set_log_file, reset_log_file), the     *)
(* redirection of the standard streams (redirect_stdout, restore_stdout),  *)
(* getODArgs and the repeating Timer; odpy.wellman: the cached well list   *)
(* (getWellDBList).                                                        *)
(*                                                                         *)
(* A file is a sequence of one-character strings.  "n" is the newline      *)
(* character, "r" a carriage return, " " a whitespace character, "F" the   *)
(* completion marker 'Finished batch processing' and "a" any other         *)
(* character.  A line is a sequence of characters that ends with "n",      *)
(* except possibly the last line of a file.                                *)
(***************************************************************************)
EXTENDS Integers, Sequences, FiniteSets, TLC

\* ------------------------------------------------------------------ bounds
MaxFileLen == 4      \* bytes of a file handed to tail
MaxCount == 3        \* largest value of tail's lines argument
MaxBuffer == 3       \* largest value of tail's _buffer argument
MaxLogBytes == 12    \* bytes of a batch log file
MaxLogLen == 3       \* bytes of a logger's file before the first call
MaxDiskLen == 5      \* bytes a logger's file may grow to
MaxKeep == 2         \* largest value of reset_log_file's keeplines
MaxTwiceLen == 4     \* bytes of a file tail is called on twice
MaxHandlers == 2     \* handlers a caller may have put on a logger
MaxOpens == 4        \* file objects redirect_stdout may open in one run
MaxGrowLen == 3      \* bytes of a growing file when tail is called on it
MaxAppended == 4     \* bytes a writer appends while one call runs
MaxRedirects == 3    \* redirect_stdout calls counted in one run
MaxInterval == 4     \* longest interval of a Timer, in clock ticks
MaxCalls == 5        \* invocations counted before the count starts again

\* ------------------------------------------------------- program constants
BatchTailLines == 10     \* tail(fd,10,True) in batchIsFinished
DefaultBuffer == 4098    \* _buffer=4098 in tail's signature

Chars == {"a", "F", " ", "n"}
LogChars == {"a", "n", "r"}
Modes == {"text", "binary"}
Paths == {"P", "Q"}
NoFile == [exists |-> FALSE, data |-> <<>>]
File(bytes) == [exists |-> TRUE, data |-> bytes]
NoHandle == [path |-> "none", mode |-> "none", pos |-> 0]
Surveys == {"S1", "S2"}
UserSurvey == "S1"

VARIABLES
  disk,           \* path -> the file at that path (its bytes), or NoFile
  fp,             \* the open file handle tail works on: path, mode, position
  lines,          \* tail's argument lines
  strip_empty,    \* tail's argument strip_empty
  buffer,         \* tail's argument _buffer
  lines_found,    \* tail's local lines_found
  block_counter,  \* tail's local block_counter
  ret,            \* tail's return value
  pc,             \* position in the running call
  caller,         \* the function called: "tail", "batch", "reset", ...
  logfile,        \* batchIsFinished's argument logfile
  finished,       \* batchIsFinished's return value
  fault,          \* the I/O operation that failed in this call, or "none"
  procHandlers,   \* proclog_logger.handlers
  sysHandlers,    \* syslog_logger.handlers
  keeplines,      \* reset_log_file's argument keeplines
  keptlines,      \* reset_log_file's local keptlines
  logfnm,         \* reset_log_file's local logfnm
  orig,           \* the bytes of the log file when reset_log_file was called
  hist,           \* what earlier steps of the run did: see NoHist
  sys_stdout,     \* sys.stdout
  sys_stderr,     \* sys.stderr
  sys___stdout__, \* sys.__stdout__, the stream the interpreter started with
  sys___stderr__, \* sys.__stderr__
  storedstdout,   \* the module global storedstdout
  storedstderr,   \* the module global storedstderr
  root_is_bokeh,  \* bokeh is installed and the root logger is bokeh's
  opens,          \* the file objects redirect_stdout has opened so far
  args,           \* the args dictionary of the last getODArgs call
  odargs,         \* the dictionary getODArgs returned
  timer_pc,       \* where the timer thread stands in Timer.run
  self_finished,  \* the timer's event self.finished is set
  interval,       \* self.interval, in clock ticks
  elapsed,        \* ticks the running wait has lasted
  nwaits,         \* waits the thread has completed
  ncalls,         \* times the thread has invoked self.function
  dblist,         \* wellman's module global dblist, the cached list
  db,             \* survey -> the wells its database holds
  retlist         \* the list the last getWellDBList call returned

tailVars == <<fp, lines, strip_empty, buffer, lines_found, block_counter, ret>>
batchVars == <<logfile, finished>>
logVars == <<procHandlers, sysHandlers, keeplines, keptlines, logfnm, orig>>
coreVars == <<disk, tailVars, pc, caller, batchVars, fault, logVars>>
stdioVars == <<sys_stdout, sys_stderr, sys___stdout__, sys___stderr__,
               storedstdout, storedstderr, root_is_bokeh, opens>>
argVars == <<args, odargs>>
timerVars == <<timer_pc, self_finished, interval, elapsed, nwaits, ncalls>>
wellVars == <<dblist, db, retlist>>
otherVars == <<stdioVars, argVars, timerVars, wellVars>>
notStdio == <<argVars, timerVars, wellVars>>
notArgs == <<stdioVars, timerVars, wellVars>>
notTimer == <<stdioVars, argVars, wellVars>>
notWell == <<stdioVars, argVars, timerVars>>
extVars == <<hist, otherVars>>
vars == <<coreVars, extVars>>

\* Nothing recorded yet.  calls: the tail calls made on the handle; ret1: the
\* result of the first of them; pos1, pos2: the handle's position when the
\* first and the second call were entered; moved: the caller moved the
\* handle between the calls; data1: the bytes of the file when the first call
\* was entered; appended: bytes a writer added during the running call;
\* out0, err0: sys.stdout and sys.stderr when redirect_stdout was last
\* called; paired: the last restore_stdout came straight after a
\* redirect_stdout; reload, survey: the reload argument of the last
\* getWellDBList call and the survey its args stood for; cached0: dblist
\* when that call was entered; queried: the call asked the database; depth:
\* redirect_stdout calls not yet followed by their restore_stdout;
\* redirects: redirect_stdout calls so far; first_out, first_err: sys.stdout
\* and sys.stderr before the first of them; fetched_for: the survey whose
\* database the cached list dblist was fetched from.
NoStream == [obj |-> "None", path |-> "-", id |-> 0]
NoHist == [calls |-> 0, ret1 |-> <<>>, pos1 |-> 0, pos2 |-> 0, moved |-> FALSE,
           data1 |-> <<>>, appended |-> <<>>,
           out0 |-> NoStream, err0 |-> NoStream, paired |-> FALSE,
           reload |-> FALSE, survey |-> "-", cached0 |-> <<>>,
           queried |-> FALSE,
           depth |-> 0, redirects |-> 0, first_out |-> NoStream,
           first_err |-> NoStream, fetched_for |-> "-"]

\* --------------------------------------------------------- pure helpers
Min(a, b) == IF a <= b THEN a ELSE b

\* Universal-newline decoding of a text-mode read: "\r\n" and "\r" -> "\n".
Decode(s) ==
  LET RECURSIVE go(_, _)
      go(i, acc) ==
        IF i > Len(s) THEN acc
        ELSE IF s[i] = "r"
             THEN IF i < Len(s) /\ s[i+1] = "n"
                  THEN go(i + 2, Append(acc, "n"))
                  ELSE go(i + 1, Append(acc, "n"))
             ELSE go(i + 1, Append(acc, s[i]))
  IN go(1, <<>>)

\* What a handle of the given mode reads from the bytes s.
View(s, mode) == IF mode = "text" THEN Decode(s) ELSE s

\* readlines() on the content s: split after every newline.
SplitLines(s) ==
  LET RECURSIVE go(_, _, _)
      go(i, cur, acc) ==
        IF i > Len(s)
        THEN IF cur = <<>> THEN acc ELSE Append(acc, cur)
        ELSE IF s[i] = "n"
             THEN go(i + 1, <<>>, Append(acc, Append(cur, "n")))
             ELSE go(i + 1, Append(cur, s[i]), acc)
  IN go(1, <<>>, <<>>)

\* fp.readlines() from position pos of the file with bytes s.
Readlines(s, pos, mode) == SplitLines(View(SubSeq(s, pos + 1, Len(s)), mode))

\* lst[-k:] taken one entry short
LastNDropsOne(lst, k) ==
  IF k > Len(lst) THEN lst ELSE SubSeq(lst, Len(lst) - k + 2, Len(lst))

\* lst[-k:] for k >= 1
LastN(lst, k) ==
  IF k >= Len(lst) THEN lst ELSE SubSeq(lst, Len(lst) - k + 1, Len(lst))

\* while '\n' in ret: ret.remove('\n').  The entries read from a binary
\* handle are bytes objects, which never compare equal to the str '\n'.
StripEmpty(lst, mode) ==
  IF mode = "text" THEN SelectSeq(lst, LAMBDA l : l # <<"n">>) ELSE lst

\* 'Finished batch processing' in line
HasMarker(line) == \E i \in 1..Len(line) : line[i] = "F"

\* ---------------------------------------------------------------- tail
\* tail(fp, lines, strip_empty, _buffer) is entered: lines 887-888.
TailEnter(path, mode, pos, k, strip, buf) ==
  /\ pc = "idle"
  /\ disk[path].exists
  /\ pos <= Len(disk[path].data)
  /\ fp' = [path |-> path, mode |-> mode, pos |-> pos]
  /\ lines' = k
  /\ strip_empty' = strip
  /\ buffer' = buf
  /\ lines_found' = <<>>
  /\ block_counter' = -1
  /\ caller' = "tail"
  /\ pc' = "while"
  /\ UNCHANGED <<disk, ret, batchVars, fault, logVars>>

TailCall(path, mode, pos, k, strip, buf) ==
  /\ TailEnter(path, mode, pos, k, strip, buf)
  /\ UNCHANGED extVars

\* fp.seek(block_counter * _buffer, os.SEEK_END) raises IOError: a text-mode
\* handle refuses every nonzero end-relative seek, a binary handle refuses a
\* seek to before byte 0.
SeekRaises ==
  \/ fp.mode = "text"
  \/ Len(disk[fp.path].data) + block_counter * buffer < 0

\* The seek taken from the handle's current position instead of the end.
TailSeekFromCurrent ==
  /\ pc = "while"
  /\ Len(lines_found) < lines
  /\ ~SeekRaises
  /\ fp' = [fp EXCEPT !.pos = IF fp.pos + block_counter * buffer >= 0
                                THEN fp.pos + block_counter * buffer
                                ELSE 0]
  /\ pc' = "read"
  /\ UNCHANGED <<disk, lines, strip_empty, buffer, lines_found, block_counter,
                 ret, caller, batchVars, fault, logVars>>
  /\ UNCHANGED extVars

\* Lines 889-891: the loop test holds and the seek from the end succeeds.
TailSeek ==
  /\ pc = "while"
  /\ Len(lines_found) < lines
  /\ ~SeekRaises
  /\ fp' = [fp EXCEPT !.pos = Len(disk[fp.path].data) + block_counter * buffer]
  /\ pc' = "read"
  /\ UNCHANGED <<disk, lines, strip_empty, buffer, lines_found, block_counter,
                 ret, caller, batchVars, fault, logVars>>
  /\ UNCHANGED extVars

\* Lines 889-892: the loop test holds and the seek raises IOError, which the
\* except clause catches.
TailSeekCaught ==
  /\ pc = "while"
  /\ Len(lines_found) < lines
  /\ SeekRaises
  /\ pc' = "rewind"
  /\ UNCHANGED <<disk, tailVars, caller, batchVars, fault, logVars>>
  /\ UNCHANGED extVars

\* Lines 889-892: the seek is a legal one and fails in the operating system;
\* the error is an IOError too and the except clause catches it.
TailSeekFault ==
  /\ pc = "while"
  /\ Len(lines_found) < lines
  /\ ~SeekRaises
  /\ fault' = "seek"
  /\ pc' = "rewind"
  /\ UNCHANGED <<disk, tailVars, caller, batchVars, logVars>>
  /\ UNCHANGED extVars

\* The chunk read with block_counter left as it is.
TailReadSameBlock ==
  /\ pc = "read"
  /\ lines_found' = Readlines(disk[fp.path].data, fp.pos, fp.mode)
  /\ fp' = [fp EXCEPT !.pos = Len(disk[fp.path].data)]
  /\ pc' = "while"
  /\ UNCHANGED <<disk, lines, strip_empty, buffer, block_counter, ret, caller,
                 batchVars, fault, logVars>>
  /\ UNCHANGED extVars

\* Lines 897-898: lines_found = fp.readlines(); block_counter -= 1.
TailRead ==
  /\ pc = "read"
  /\ lines_found' = Readlines(disk[fp.path].data, fp.pos, fp.mode)
  /\ fp' = [fp EXCEPT !.pos = Len(disk[fp.path].data)]
  /\ block_counter' = block_counter - 1
  /\ pc' = "while"
  /\ UNCHANGED <<disk, lines, strip_empty, buffer, ret, caller, batchVars,
                 fault, logVars>>
  /\ UNCHANGED extVars

\* Line 897: fp.readlines() fails; nothing catches the error.
TailReadFault ==
  /\ pc = "read"
  /\ fault' = "read"
  /\ pc' = "raised"
  /\ UNCHANGED <<disk, tailVars, caller, batchVars, logVars>>
  /\ UNCHANGED extVars

\* The except clause reading on from where the handle stands, without
\* fp.seek(0).
TailRewindNoSeek ==
  /\ pc = "rewind"
  /\ lines_found' = Readlines(disk[fp.path].data, fp.pos, fp.mode)
  /\ fp' = [fp EXCEPT !.pos = Len(disk[fp.path].data)]
  /\ pc' = "slice"
  /\ UNCHANGED <<disk, lines, strip_empty, buffer, block_counter, ret, caller,
                 batchVars, fault, logVars>>
  /\ UNCHANGED extVars

\* Lines 893-895: fp.seek(0); lines_found = fp.readlines(); break.
TailRewind ==
  /\ pc = "rewind"
  /\ lines_found' = Readlines(disk[fp.path].data, 0, fp.mode)
  /\ fp' = [fp EXCEPT !.pos = Len(disk[fp.path].data)]
  /\ pc' = "slice"
  /\ UNCHANGED <<disk, lines, strip_empty, buffer, block_counter, ret, caller,
                 batchVars, fault, logVars>>
  /\ UNCHANGED extVars

\* The failure inside the except clause swallowed: an empty list is kept.
TailRewindSwallowed ==
  /\ pc = "rewind"
  /\ fault' = "read"
  /\ lines_found' = <<>>
  /\ pc' = "slice"
  /\ UNCHANGED <<disk, fp, lines, strip_empty, buffer, block_counter, ret,
                 caller, batchVars, logVars>>
  /\ UNCHANGED extVars

\* Lines 893-894: fp.seek(0) or fp.readlines() fails inside the except
\* clause; nothing catches the error.
TailRewindFault ==
  /\ pc = "rewind"
  /\ fault' = "read"
  /\ pc' = "raised"
  /\ UNCHANGED <<disk, tailVars, caller, batchVars, logVars>>
  /\ UNCHANGED extVars

\* The lines found returned as they are, without the cut to the last k.
TailResultUncut(found, k, strip, mode) ==
  IF strip THEN StripEmpty(found, mode) ELSE found

\* Lines 900-904: ret = lines_found[-lines:], the blank entries removed
\* afterwards when strip_empty is set.
TailResult(found, k, strip, mode) ==
  IF strip THEN StripEmpty(LastN(found, k), mode) ELSE LastN(found, k)

TailReturn ==
  /\ \/ pc = "slice"
     \/ pc = "while" /\ Len(lines_found) >= lines
  /\ ret' = TailResult(lines_found, lines, strip_empty, fp.mode)
  /\ pc' = "tail_done"
  /\ UNCHANGED <<disk, fp, lines, strip_empty, buffer, lines_found,
                 block_counter, caller, batchVars, fault, logVars>>
  /\ UNCHANGED extVars

\* ----------------------------------------------------- batchIsFinished
\* Lines 925-927: open(logfile) succeeds and tail(fd,10,True) is entered.
\* open raises FileNotFoundError when there is no file at the path.
BatchCall(path) ==
  /\ pc = "idle"
  /\ caller' = "batch"
  /\ logfile' = path
  /\ IF disk[path].exists
     THEN /\ fp' = [path |-> path, mode |-> "text", pos |-> 0]
          /\ lines' = BatchTailLines
          /\ strip_empty' = TRUE
          /\ buffer' = DefaultBuffer
          /\ lines_found' = <<>>
          /\ block_counter' = -1
          /\ pc' = "while"
          /\ UNCHANGED <<ret, fault>>
     ELSE /\ fault' = "open"
          /\ pc' = "raised"
          /\ UNCHANGED tailVars
  /\ UNCHANGED <<disk, finished, logVars>>
  /\ UNCHANGED extVars

\* Line 926: the file exists and open(logfile) fails (permission denied).
BatchOpenDenied(path) ==
  /\ pc = "idle"
  /\ disk[path].exists
  /\ caller' = "batch"
  /\ logfile' = path
  /\ fault' = "open"
  /\ pc' = "raised"
  /\ UNCHANGED <<disk, tailVars, finished, logVars>>
  /\ UNCHANGED extVars

\* The marker looked for in every entry of ret instead of the last one.
BatchReturnAnyLine ==
  /\ pc = "tail_done"
  /\ caller = "batch"
  /\ finished' = (\E i \in 1..Len(ret) : HasMarker(ret[i]))
  /\ pc' = "done"
  /\ UNCHANGED <<disk, tailVars, caller, logfile, fault, logVars>>
  /\ UNCHANGED extVars

\* Line 928: return len(ret) > 0 and 'Finished batch processing' in ret[-1]
BatchReturn ==
  /\ pc = "tail_done"
  /\ caller = "batch"
  /\ finished' = (Len(ret) > 0 /\ HasMarker(ret[Len(ret)]))
  /\ pc' = "done"
  /\ UNCHANGED <<disk, tailVars, caller, logfile, fault, logVars>>
  /\ UNCHANGED extVars

\* -------------------------------------------------------------- loggers
\* logging.StreamHandler(stream)
StreamHandler(stream) == [kind |-> "stream", target |-> stream, mode |-> "-"]

\* A file handler that opens its file for writing.
FileHandlerForWrite(filenm) == [kind |-> "file", target |-> filenm, mode |-> "w"]

\* logging.FileHandler(filenm,'a')
FileHandler(filenm) == [kind |-> "file", target |-> filenm, mode |-> "a"]

\* True for a logger with any handler at all.
has_handlers(handlers) == Len(handlers) > 0

\* Lines 231-234
has_file_handlers(handlers) ==
  \E i \in 1..Len(handlers) : handlers[i].kind = "file"

\* Lines 281-284: the file of the first file handler, "none" for None.
get_handler_filename(handlers) ==
  LET files == {i \in 1..Len(handlers) : handlers[i].kind = "file"}
  IN IF files = {} THEN "none"
     ELSE handlers[CHOOSE i \in files : \A j \in files : i <= j].target

has_log_file == has_file_handlers(procHandlers)
get_log_file == get_handler_filename(procHandlers)

\* os.path.isfile(filenm)
isfile(d, filenm) == filenm \in Paths /\ d[filenm].exists

\* Lines 124-125: for handler in logger.handlers: logger.removeHandler(handler).
\* The list is changed while it is iterated, so the iterator steps over the
\* entry that moves into the place of the removed one: the entries at the
\* even places stay.
RemoveHandlers(handlers) ==
  [j \in 1..(Len(handlers) \div 2) |-> handlers[2 * j]]

\* The handlers of a logger after set_log_file(filenm, logger): lines 124-138.
HandlersAfterSet(handlers, filenm, d) ==
  LET left == RemoveHandlers(handlers)
  IN IF filenm = "<stdout>" \/ filenm = "stdout"
     THEN Append(left, StreamHandler("stdout"))
     ELSE IF filenm = "<stderr>" \/ filenm = "stdout"
          THEN Append(left, StreamHandler("stderr"))
          ELSE IF ~isfile(d, filenm)
               THEN left
               ELSE Append(left, FileHandler(filenm))

\* The disk after set_log_file(filenm, logger) attached a handler: the new
\* file handler opens its file in its mode at once.
DiskAfterOpen(d, filenm) ==
  IF isfile(d, filenm) /\ FileHandler(filenm).mode = "w"
  THEN [d EXCEPT ![filenm] = File(<<>>)]
  ELSE d

\* The line a logger writes for one message.
LogRecord == <<"a", "n">>

\* A logger emits one record: every file handler appends it to its file.
RECURSIVE Emit(_, _)
Emit(d, handlers) ==
  IF handlers = <<>> THEN d
  ELSE LET h == Head(handlers)
           rest == Emit(d, Tail(handlers))
       IN IF h.kind = "file"
          THEN [rest EXCEPT ![h.target] = File(rest[h.target].data \o LogRecord)]
          ELSE rest

\* The files of the handlers have room for one more record.
HasRoom(d, handlers) ==
  \A i \in 1..Len(handlers) :
    handlers[i].kind = "file" =>
      Len(d[handlers[i].target].data) + Len(LogRecord) <= MaxDiskLen

Loggers == {"proc", "sys"}
HandlersOf(logger) == IF logger = "proc" THEN procHandlers ELSE sysHandlers

Ready == pc \in {"idle", "done"}

\* set_log_file(filenm, logger): lines 124-139.  When there is no file at
\* filenm, std_msg reports it on the standard logger (lines 134-136).
set_log_file(filenm, logger) ==
  LET new == HandlersAfterSet(HandlersOf(logger), filenm, disk)
      sysnow == IF logger = "sys" THEN new ELSE sysHandlers
      found == filenm \in {"<stdout>", "stdout", "<stderr>"} \/ isfile(disk, filenm)
  IN /\ Ready
     /\ found \/ HasRoom(disk, sysnow)
     /\ procHandlers' = IF logger = "proc" THEN new ELSE procHandlers
     /\ sysHandlers' = sysnow
     /\ disk' = IF found THEN DiskAfterOpen(disk, filenm)
                ELSE Emit(disk, sysnow)
     /\ caller' = "set"
     /\ pc' = "done"
     /\ keeplines' = 0
     /\ keptlines' = <<>>
     /\ logfnm' = "none"
     /\ orig' = <<>>
     /\ UNCHANGED <<tailVars, batchVars, fault>>
     /\ UNCHANGED extVars

\* log_msg(...): lines 218-219, the processing logger emits the message.
log_msg ==
  /\ Ready
  /\ HasRoom(disk, procHandlers)
  /\ disk' = Emit(disk, procHandlers)
  /\ caller' = "log"
  /\ pc' = "done"
  /\ keeplines' = 0
  /\ keptlines' = <<>>
  /\ logfnm' = "none"
  /\ orig' = <<>>
  /\ UNCHANGED <<tailVars, batchVars, fault, procHandlers, sysHandlers>>
  /\ UNCHANGED extVars

\* get_log_logger() and get_std_logger() hand the module's loggers out
\* (lines 141-151); the caller puts a handler of its own on one of them.
addHandler(logger, handler) ==
  /\ Ready
  /\ Len(HandlersOf(logger)) < MaxHandlers
  /\ handler.kind = "file" => isfile(disk, handler.target)
  /\ procHandlers' = IF logger = "proc" THEN Append(procHandlers, handler)
                     ELSE procHandlers
  /\ sysHandlers' = IF logger = "sys" THEN Append(sysHandlers, handler)
                    ELSE sysHandlers
  /\ caller' = "add"
  /\ pc' = "done"
  /\ keeplines' = 0
  /\ keptlines' = <<>>
  /\ logfnm' = "none"
  /\ orig' = <<>>
  /\ UNCHANGED <<disk, tailVars, batchVars, fault>>
  /\ UNCHANGED extVars

\* Lines 342-346: the lines the loop of reset_log_file keeps.
KeptLines(ls, n) ==
  LET RECURSIVE go(_, _)
      go(idx, kept) ==
        IF idx >= Len(ls) THEN kept
        ELSE LET more == Append(kept, ls[idx + 1])
             IN IF idx + 1 >= n THEN more ELSE go(idx + 1, more)
  IN go(0, <<>>)

\* The bytes of a list of lines written one after the other.
RECURSIVE Concat(_)
Concat(ls) == IF ls = <<>> THEN <<>> ELSE Head(ls) \o Concat(Tail(ls))

\* reset_log_file(keeplines) is entered: lines 336-339.  Without a file
\* handler on the processing logger it returns at once.
ResetEnter(n) ==
  /\ Ready
  /\ caller' = "reset"
  /\ keeplines' = n
  /\ keptlines' = <<>>
  /\ IF has_log_file
     THEN /\ logfnm' = get_log_file
          /\ orig' = IF isfile(disk, get_log_file)
                     THEN disk[get_log_file].data ELSE <<>>
          /\ pc' = "reset_read"
     ELSE /\ logfnm' = "none"
          /\ orig' = <<>>
          /\ pc' = "done"
  /\ UNCHANGED <<disk, tailVars, batchVars, fault, procHandlers, sysHandlers>>

reset_log_file(n) ==
  /\ ResetEnter(n)
  /\ UNCHANGED extVars

\* Lines 340-347: the file is read in text mode up to the kept lines; open
\* raises when logfnm is not the path of a file.
ResetRead ==
  /\ pc = "reset_read"
  /\ IF isfile(disk, logfnm)
     THEN /\ keptlines' = KeptLines(SplitLines(View(disk[logfnm].data, "text")),
                                    keeplines)
          /\ pc' = "reset_write"
     ELSE /\ keptlines' = keptlines
          /\ pc' = "raised"
  /\ UNCHANGED <<disk, tailVars, caller, batchVars, fault, procHandlers,
                 sysHandlers, keeplines, logfnm, orig>>
  /\ UNCHANGED extVars

\* The file opened for append instead of for writing: the kept lines are
\* added to what the file holds.
ResetWriteAppends ==
  /\ pc = "reset_write"
  /\ disk' = [disk EXCEPT ![logfnm] = File(disk[logfnm].data \o Concat(keptlines))]
  /\ pc' = "reset_attach"
  /\ UNCHANGED <<tailVars, caller, batchVars, fault, logVars>>
  /\ UNCHANGED extVars

\* Lines 348-351: the file is opened for writing, which empties it, and the
\* kept lines are written.
ResetWrite ==
  /\ pc = "reset_write"
  /\ disk' = [disk EXCEPT ![logfnm] = File(Concat(keptlines))]
  /\ pc' = "reset_attach"
  /\ UNCHANGED <<tailVars, caller, batchVars, fault, logVars>>
  /\ UNCHANGED extVars

\* Line 352: set_log_file( logfnm, proclog_logger )
ResetAttach ==
  /\ pc = "reset_attach"
  /\ procHandlers' = HandlersAfterSet(procHandlers, logfnm, disk)
  /\ disk' = DiskAfterOpen(disk, logfnm)
  /\ pc' = "done"
  /\ UNCHANGED <<tailVars, caller, batchVars, fault, sysHandlers,
                 keeplines, keptlines, logfnm, orig>>
  /\ UNCHANGED extVars

\* ------------------------------------------------ redirect and restore
has_stdlog_file == has_file_handlers(sysHandlers)
get_stdlog_file == get_handler_filename(sysHandlers)

\* The stream objects sys.stdout and sys.stderr can be: the console streams
\* of the interpreter, a stream the host program has installed, None, and
\* the file objects redirect_stdout opens, each a new object.
Console(nm) == [obj |-> "console", path |-> nm, id |-> 0]
HostStream(nm) == [obj |-> "host", path |-> nm, id |-> 0]
FileObject(filenm, n) == [obj |-> "file", path |-> filenm, id |-> n]

\* Lines 369-370 and 386-387: the guard both functions start with.
NotBokehRoot == ~root_is_bokeh

\* The files redirect_stdout opens: one for each logger that has a file.
Opened == (IF has_log_file THEN 1 ELSE 0) + (IF has_stdlog_file THEN 1 ELSE 0)

\* redirect_stdout with line 373, storedstdout = sys.stdout, and line 377,
\* storedstderr = sys.stderr, left out.
redirect_without_store ==
  /\ Ready
  /\ opens + 2 <= MaxOpens
  /\ IF NotBokehRoot
     THEN UNCHANGED <<sys_stdout, sys_stderr, opens>>
     ELSE /\ sys_stdout' = IF has_log_file
                           THEN FileObject(get_log_file, opens + 1)
                           ELSE sys_stdout
          /\ sys_stderr' = IF has_stdlog_file
                           THEN FileObject(get_stdlog_file, opens + Opened)
                           ELSE sys_stderr
          /\ opens' = opens + Opened
  /\ hist' = [hist EXCEPT !.out0 = sys_stdout, !.err0 = sys_stderr]
  /\ caller' = "redirect"
  /\ pc' = "done"
  /\ UNCHANGED <<disk, tailVars, batchVars, fault, logVars, sys___stdout__,
                 sys___stderr__, storedstdout, storedstderr, root_is_bokeh>>
  /\ UNCHANGED notStdio

\* redirect_stdout(): lines 369-378.  open(..., 'a') makes a new file object
\* on the logger's file and leaves the bytes of the file alone.
Redirect ==
  /\ Ready
  /\ opens + 2 <= MaxOpens
  /\ IF NotBokehRoot
     THEN UNCHANGED <<sys_stdout, sys_stderr, storedstdout, storedstderr, opens>>
     ELSE /\ IF has_log_file
             THEN /\ storedstdout' = sys_stdout
                  /\ sys_stdout' = FileObject(get_log_file, opens + 1)
             ELSE UNCHANGED <<storedstdout, sys_stdout>>
          /\ IF has_stdlog_file
             THEN /\ storedstderr' = sys_stderr
                  /\ sys_stderr' = FileObject(get_stdlog_file, opens + Opened)
             ELSE UNCHANGED <<storedstderr, sys_stderr>>
          /\ opens' = opens + Opened
  /\ caller' = "redirect"
  /\ pc' = "done"
  /\ UNCHANGED <<disk, tailVars, batchVars, fault, logVars, sys___stdout__,
                 sys___stderr__, root_is_bokeh>>
  /\ UNCHANGED notStdio

redirect_stdout ==
  /\ Redirect
  /\ hist' = [hist EXCEPT !.out0 = sys_stdout, !.err0 = sys_stderr]

\* restore_stdout(): lines 386-402.
Restore ==
  /\ Ready
  /\ IF NotBokehRoot
     THEN UNCHANGED <<sys_stdout, sys_stderr, storedstdout, storedstderr>>
     ELSE /\ IF has_log_file
             THEN IF storedstdout = NoStream
                  THEN /\ sys_stdout' = sys___stdout__
                       /\ UNCHANGED storedstdout
                  ELSE /\ sys_stdout' = storedstdout
                       /\ storedstdout' = NoStream
             ELSE UNCHANGED <<storedstdout, sys_stdout>>
          /\ IF has_stdlog_file
             THEN IF storedstderr = NoStream
                  THEN /\ sys_stderr' = sys___stderr__
                       /\ UNCHANGED storedstderr
                  ELSE /\ sys_stderr' = storedstderr
                       /\ storedstderr' = NoStream
             ELSE UNCHANGED <<storedstderr, sys_stderr>>
  /\ caller' = "restore"
  /\ pc' = "done"
  /\ UNCHANGED <<disk, tailVars, batchVars, fault, logVars, sys___stdout__,
                 sys___stderr__, root_is_bokeh, opens>>
  /\ UNCHANGED notStdio

restore_stdout ==
  /\ Restore
  /\ hist' = [hist EXCEPT !.paired = (caller = "redirect")]

\* redirect_stdout() (lines 369-378) in a run that counts the calls: depth
\* is the number of redirects not yet restored, and the streams in place
\* before the first redirect of the run are remembered.
RedirectCounted ==
  /\ hist.redirects < MaxRedirects
  /\ Redirect
  /\ hist' = [hist EXCEPT
                !.depth = hist.depth + 1,
                !.redirects = hist.redirects + 1,
                !.first_out = IF hist.redirects = 0 THEN sys_stdout
                              ELSE hist.first_out,
                !.first_err = IF hist.redirects = 0 THEN sys_stderr
                              ELSE hist.first_err]

\* restore_stdout() (lines 387-402) called when a redirect is still to be
\* restored.
RestoreCounted ==
  /\ hist.depth > 0
  /\ Restore
  /\ hist' = [hist EXCEPT !.depth = hist.depth - 1]

\* An args value is None, or a dictionary that may hold the members
\* 'logfile' and 'sysout': open files, known here by their names.
NoneArgs == [none |-> TRUE, logfile |-> "absent", sysout |-> "absent"]

\* A returned dictionary without the members 'proclog' and 'syslog'.
NoDict == [proclog |-> "absent", syslog |-> "absent"]

\* ------------------------------------------------------------ getODArgs
\* Lines 841-844 raise: args['logfile'] and args['sysout'] are evaluated
\* whenever the logger has a file, and args may be None (TypeError) or a
\* dictionary without the member (KeyError).
ODArgsRaises(a) ==
  \/ has_log_file /\ (a.none \/ a.logfile = "absent")
  \/ has_stdlog_file /\ (a.none \/ a.sysout = "absent")

\* Lines 841-844: the members 'proclog' and 'syslog' of the returned
\* dictionary, taken from args['logfile'].name and args['sysout'].name.
ODArgsDict(a) ==
  [proclog |-> IF has_log_file THEN a.logfile ELSE "absent",
   syslog |-> IF has_stdlog_file THEN a.sysout ELSE "absent"]

\* getODArgs(args): lines 830-848.
getODArgs(a) ==
  /\ Ready
  /\ args' = a
  /\ caller' = "getODArgs"
  /\ IF ODArgsRaises(a)
     THEN /\ fault' = IF a.none THEN "TypeError" ELSE "KeyError"
          /\ pc' = "raised"
          /\ odargs' = NoDict
     ELSE /\ odargs' = ODArgsDict(a)
          /\ pc' = "done"
          /\ UNCHANGED fault
  /\ UNCHANGED <<disk, tailVars, batchVars, logVars, hist, notArgs>>

\* initLogging(args): lines 107-108, set_log_file on the processing logger
\* with args['logfile'].name and on the standard logger with
\* args['sysout'].name.  Both files are open files of the caller, so they
\* exist.
initLogging(a) ==
  /\ Ready
  /\ ~a.none /\ a.logfile # "absent" /\ a.sysout # "absent"
  /\ a.logfile \in Paths => isfile(disk, a.logfile)
  /\ a.sysout \in Paths => isfile(disk, a.sysout)
  /\ procHandlers' = HandlersAfterSet(procHandlers, a.logfile, disk)
  /\ sysHandlers' = HandlersAfterSet(sysHandlers, a.sysout,
                                     DiskAfterOpen(disk, a.logfile))
  /\ disk' = DiskAfterOpen(DiskAfterOpen(disk, a.logfile), a.sysout)
  /\ caller' = "initLogging"
  /\ pc' = "done"
  /\ keeplines' = 0
  /\ keptlines' = <<>>
  /\ logfnm' = "none"
  /\ orig' = <<>>
  /\ UNCHANGED <<tailVars, batchVars, fault>>
  /\ UNCHANGED extVars

\* ---------------------------------------------------------------- Timer
\* Timer(interval, function).start(): the thread enters run (line 957).
start(iv) ==
  /\ timer_pc = "created"
  /\ interval' = iv
  /\ timer_pc' = "test"
  /\ UNCHANGED <<self_finished, elapsed, nwaits, ncalls>>
  /\ UNCHANGED <<coreVars, hist, notTimer>>

\* Line 958: while not self.finished.is_set().  With the event clear the
\* thread goes on to wait, with the event set it leaves the loop.  The
\* counts of waits and invocations start again after MaxCalls invocations.
TimerTest ==
  /\ timer_pc = "test"
  /\ timer_pc' = IF self_finished THEN "after" ELSE "wait"
  /\ elapsed' = 0
  /\ nwaits' = IF ncalls >= MaxCalls THEN 0 ELSE nwaits
  /\ ncalls' = IF ncalls >= MaxCalls THEN 0 ELSE ncalls
  /\ UNCHANGED <<self_finished, interval>>
  /\ UNCHANGED <<coreVars, hist, notTimer>>

\* Line 959: self.finished.wait(self.interval) goes on waiting: the event
\* is clear and the interval has not passed.
TimerTick ==
  /\ timer_pc = "wait"
  /\ ~self_finished
  /\ elapsed < interval
  /\ elapsed' = elapsed + 1
  /\ UNCHANGED <<timer_pc, self_finished, interval, nwaits, ncalls>>
  /\ UNCHANGED <<coreVars, hist, notTimer>>

\* Line 959: self.finished.wait(self.interval) returns, the interval over
\* or the event set.
TimerWake ==
  /\ timer_pc = "wait"
  /\ self_finished \/ elapsed = interval
  /\ nwaits' = nwaits + 1
  /\ timer_pc' = "call"
  /\ UNCHANGED <<self_finished, interval, elapsed, ncalls>>
  /\ UNCHANGED <<coreVars, hist, notTimer>>

\* The invocation as threading.Timer.run makes it: the function is called
\* once and the event set after it.
TimerCallOnce ==
  /\ timer_pc = "call"
  /\ ncalls' = ncalls + 1
  /\ self_finished' = TRUE
  /\ timer_pc' = "test"
  /\ UNCHANGED <<interval, elapsed, nwaits>>
  /\ UNCHANGED <<coreVars, hist, notTimer>>

\* Line 960: self.function(*self.args, **self.kwargs) is called and
\* returns; the thread goes back to the loop test.
TimerCall ==
  /\ timer_pc = "call"
  /\ ncalls' = ncalls + 1
  /\ timer_pc' = "test"
  /\ UNCHANGED <<self_finished, interval, elapsed, nwaits>>
  /\ UNCHANGED <<coreVars, hist, notTimer>>

\* Line 961: self.finished.set(); run returns and the thread ends.
TimerEnd ==
  /\ timer_pc = "after"
  /\ self_finished' = TRUE
  /\ timer_pc' = "ended"
  /\ UNCHANGED <<interval, elapsed, nwaits, ncalls>>
  /\ UNCHANGED <<coreVars, hist, notTimer>>

\* cancel(), inherited from threading.Timer (line 951), called by another
\* thread on the running timer: it sets the event self.finished, which run
\* tests in line 958 and waits on in line 959.
cancel ==
  /\ timer_pc \in {"test", "wait", "call"}
  /\ ~self_finished
  /\ self_finished' = TRUE
  /\ UNCHANGED <<timer_pc, interval, elapsed, nwaits, ncalls>>
  /\ UNCHANGED <<coreVars, hist, notTimer>>

\* The statements of the timer thread.
TimerStep == TimerTest \/ TimerTick \/ TimerWake \/ TimerCall \/ TimerEnd

\* -------------------------------------------------------- getWellDBList
\* An args value of getWellDBList: the empty dictionary of the default, or a
\* dictionary that names a survey.
EmptyArgs == [empty |-> TRUE, survey |-> "-"]
SurveyArgs(s) == [empty |-> FALSE, survey |-> s]

\* dbman.getSurvey: the survey of args, the user's current survey when the
\* dictionary comes from getODArgs().
SurveyOf(a) == IF a.empty THEN UserSurvey ELSE a.survey

\* wellman.getWellDBList(reload, args): lines 165-172.  A non-empty cached
\* list is returned unless reload is set; otherwise empty args are replaced
\* by odcommon.getODArgs(), which may raise, and the list is fetched with
\* dbman.getDBList and cached.
WellDBList(reload, a) ==
  /\ Ready
  /\ caller' = "getWellDBList"
  /\ IF dblist # <<>> /\ ~reload
     THEN /\ retlist' = dblist
          /\ pc' = "done"
          /\ UNCHANGED <<dblist, fault>>
     ELSE IF a.empty /\ ODArgsRaises(NoneArgs)
          THEN /\ fault' = "TypeError"
               /\ pc' = "raised"
               /\ UNCHANGED <<dblist, retlist>>
          ELSE /\ dblist' = db[SurveyOf(a)]
               /\ retlist' = db[SurveyOf(a)]
               /\ pc' = "done"
               /\ UNCHANGED fault
  /\ UNCHANGED <<disk, tailVars, batchVars, logVars, db, notWell>>

getWellDBList(reload, a) ==
  /\ WellDBList(reload, a)
  /\ hist' = [hist EXCEPT
                !.reload = reload, !.survey = SurveyOf(a), !.cached0 = dblist,
                !.queried = /\ (dblist = <<>> \/ reload)
                            /\ ~(a.empty /\ ODArgsRaises(NoneArgs))]

\* getWellDBList(reload, args) (lines 165-172) in a run that remembers for
\* which survey the cached list was fetched from the database.
getWellDBListTracked(reload, a) ==
  /\ WellDBList(reload, a)
  /\ hist' = [hist EXCEPT
                !.reload = reload, !.survey = SurveyOf(a), !.cached0 = dblist,
                !.queried = /\ (dblist = <<>> \/ reload)
                            /\ ~(a.empty /\ ODArgsRaises(NoneArgs)),
                !.fetched_for = IF /\ (dblist = <<>> \/ reload)
                                   /\ ~(a.empty /\ ODArgsRaises(NoneArgs))
                                THEN SurveyOf(a) ELSE hist.fetched_for]

\* OpendTect adds wells to a survey or removes them: the list that
\* get_object_infos returns for the survey (dbman line 36) changes.
DbChange(s, l) ==
  /\ Ready
  /\ db[s] # l
  /\ db' = [db EXCEPT ![s] = l]
  /\ caller' = "db"
  /\ pc' = "done"
  /\ UNCHANGED <<disk, tailVars, batchVars, fault, logVars, hist, dblist,
                 retlist, notWell>>

\* ------------------------------------------------------------- writers
\* Another process appends one whole line to the file while a tail call is
\* between two of its statements.
WriterAppend(rec) ==
  /\ caller = "tail"
  /\ pc \in {"while", "read", "rewind", "slice"}
  /\ Len(hist.appended) + Len(rec) <= MaxAppended
  /\ disk' = [disk EXCEPT ![fp.path] = File(disk[fp.path].data \o rec)]
  /\ hist' = [hist EXCEPT !.appended = hist.appended \o rec]
  /\ UNCHANGED <<tailVars, pc, caller, batchVars, fault, logVars, otherVars>>

\* reset_log_file(keeplines) is entered (lines 336-339) in a run that
\* records what a writer appends while this call runs.
ResetWatched(n) ==
  /\ ResetEnter(n)
  /\ hist' = [hist EXCEPT !.appended = <<>>]
  /\ UNCHANGED otherVars

\* Another writer appends one line to the log file after reset_log_file has
\* closed the file it read (line 347) and before it opens it for writing
\* (line 348).
WriterAppendInWindow(rec) ==
  /\ caller = "reset"
  /\ pc = "reset_write"
  /\ Len(hist.appended) + Len(rec) <= MaxAppended
  /\ disk' = [disk EXCEPT ![logfnm] = File(disk[logfnm].data \o rec)]
  /\ hist' = [hist EXCEPT !.appended = hist.appended \o rec]
  /\ UNCHANGED <<tailVars, pc, caller, batchVars, fault, logVars, otherVars>>

\* ------------------------------------------- tail twice on one handle
\* The first of two tail calls on a handle: tail is entered (lines 887-888)
\* and the run remembers where the handle stood and what the file held.
TailFirst(path, mode, pos, k, strip, buf) ==
  /\ TailEnter(path, mode, pos, k, strip, buf)
  /\ hist' = [NoHist EXCEPT !.calls = 1, !.pos1 = pos,
                            !.data1 = disk[path].data]
  /\ UNCHANGED otherVars

\* tail is entered again (lines 887-888) on the same handle with the same
\* arguments.  The handle stands at pos: where the first call left it, or
\* where the caller has moved it since.
TailAgain(pos) ==
  /\ pc = "tail_done"
  /\ caller = "tail"
  /\ hist.calls = 1
  /\ pos <= Len(disk[fp.path].data)
  /\ fp' = [fp EXCEPT !.pos = pos]
  /\ lines_found' = <<>>
  /\ block_counter' = -1
  /\ pc' = "while"
  /\ hist' = [hist EXCEPT !.calls = 2, !.ret1 = ret, !.pos2 = pos,
                          !.moved = (pos # fp.pos)]
  /\ UNCHANGED <<disk, lines, strip_empty, buffer, ret, caller, batchVars,
                 fault, logVars>>
  /\ UNCHANGED otherVars

\* ------------------------------------------------------- specification
AllFiles(n) == UNION {[1..m -> Chars] : m \in 0..n}

InitCore ==
  /\ fp = NoHandle
  /\ lines = 0
  /\ strip_empty = FALSE
  /\ buffer = 0
  /\ lines_found = <<>>
  /\ block_counter = 0
  /\ ret = <<>>
  /\ pc = "idle"
  /\ caller = "none"
  /\ logfile = "none"
  /\ finished = FALSE
  /\ fault = "none"
  /\ keeplines = 0
  /\ keptlines = <<>>
  /\ logfnm = "none"
  /\ orig = <<>>
  /\ hist = NoHist

\* The standard streams left out of the picture.
NoStdio ==
  /\ sys_stdout = NoStream
  /\ sys_stderr = NoStream
  /\ sys___stdout__ = NoStream
  /\ sys___stderr__ = NoStream
  /\ storedstdout = NoStream
  /\ storedstderr = NoStream
  /\ root_is_bokeh = FALSE
  /\ opens = 0

\* No getODArgs call made yet.
NoODArgs ==
  /\ args = NoneArgs
  /\ odargs = NoDict

\* A Timer object as its constructor leaves it: not started, the event
\* clear.
NoTimer ==
  /\ timer_pc = "created"
  /\ self_finished = FALSE
  /\ interval = 0
  /\ elapsed = 0
  /\ nwaits = 0
  /\ ncalls = 0

\* wellman as imported: dblist = {} (line 20).  No database in the picture.
NoWells ==
  /\ dblist = <<>>
  /\ db = [s \in Surveys |-> <<>>]
  /\ retlist = <<>>

InitCommon ==
  /\ InitCore
  /\ NoStdio
  /\ NoODArgs
  /\ NoTimer
  /\ NoWells

\* tail and batchIsFinished on an arbitrary file at path P, with arbitrary
\* arguments and handle position; there is no file at path Q.
Init ==
  /\ InitCommon
  /\ procHandlers = <<>>
  /\ sysHandlers = <<>>
  /\ \E f \in AllFiles(MaxFileLen) :
       disk = [p \in Paths |-> IF p = "P" THEN File(f) ELSE NoFile]

Next ==
  \/ \E mode \in Modes, pos \in 0..MaxFileLen, k \in 1..MaxCount,
        strip \in BOOLEAN, buf \in 1..MaxBuffer :
       TailCall("P", mode, pos, k, strip, buf)
  \/ TailSeek
  \/ TailSeekCaught
  \/ TailSeekFault
  \/ TailRead
  \/ TailReadFault
  \/ TailRewind
  \/ TailRewindFault
  \/ TailReturn
  \/ \E path \in Paths : BatchCall(path)
  \/ \E path \in Paths : BatchOpenDenied(path)
  \/ BatchReturn

Spec == Init /\ [][Next]_vars

\* A batch log: whole records (a blank line, or one character and a
\* newline), possibly followed by a record whose newline is not yet written.
Records == {<<"n">>, <<"a", "n">>, <<"F", "n">>, <<" ", "n">>}

RECURSIVE RecordFiles(_)
RecordFiles(n) ==
  IF n = 0 THEN {<<>>}
  ELSE LET prev == RecordFiles(n - 1)
       IN prev \cup {h \in {f \o r : f \in prev, r \in Records} : Len(h) <= n}

BatchFiles ==
  RecordFiles(MaxLogBytes)
    \cup {f \o <<c>> : f \in RecordFiles(MaxLogBytes - 1), c \in {"a", "F"}}

\* batchIsFinished on a log of up to MaxLogBytes bytes, or on a missing file.
InitBatch ==
  /\ InitCommon
  /\ procHandlers = <<>>
  /\ sysHandlers = <<>>
  /\ \E f \in BatchFiles :
       disk = [p \in Paths |-> IF p = "P" THEN File(f) ELSE NoFile]

NextBatch ==
  \/ \E path \in Paths : BatchCall(path)
  \/ TailSeekCaught
  \/ TailRewind
  \/ TailReturn
  \/ BatchReturn

SpecBatch == InitBatch /\ [][NextBatch]_vars


\* The loggers as the module creates them (lines 85-96): each has a stream
\* handler on stdout, or none when the root logger already had handlers.
\* The log files P and Q hold arbitrary text, or Q does not exist.
LogFiles(n) == UNION {[1..m -> LogChars] : m \in 0..n}

InitLog ==
  /\ InitCommon
  /\ procHandlers \in {<<>>, <<StreamHandler("stdout")>>}
  /\ sysHandlers \in {<<>>, <<StreamHandler("stdout")>>}
  /\ \E f \in LogFiles(MaxLogLen), q \in {NoFile, File(<<>>)} :
       disk = [p \in Paths |-> IF p = "P" THEN File(f) ELSE q]

FileNames == {"<stdout>", "<stderr>", "stderr", "P", "Q"}

NextLog ==
  \/ \E filenm \in FileNames, logger \in Loggers : set_log_file(filenm, logger)
  \/ log_msg
  \/ \E n \in 0..MaxKeep : reset_log_file(n)
  \/ ResetRead
  \/ ResetWrite
  \/ ResetAttach

SpecLog == InitLog /\ [][NextLog]_vars

\* Two tail calls in a row on one handle, on a file of letters and newlines
\* that nothing writes to.
TwiceFiles == UNION {[1..m -> {"a", "n"}] : m \in 0..MaxTwiceLen}

InitTwice ==
  /\ InitCommon
  /\ procHandlers = <<>>
  /\ sysHandlers = <<>>
  /\ \E f \in TwiceFiles :
       disk = [p \in Paths |-> IF p = "P" THEN File(f) ELSE NoFile]

NextTwice ==
  \/ \E mode \in Modes, pos \in 0..MaxTwiceLen, k \in 1..MaxCount,
        strip \in BOOLEAN, buf \in 1..MaxBuffer :
       TailFirst("P", mode, pos, k, strip, buf)
  \/ TailSeek
  \/ TailSeekCaught
  \/ TailRead
  \/ TailRewind
  \/ TailReturn
  \/ \E pos \in 0..MaxTwiceLen : TailAgain(pos)

SpecTwice == InitTwice /\ [][NextTwice]_vars

\* One tail call that runs to its end: tail is ordinary sequential code, so
\* a call that has a next statement to execute executes it.  No I/O operation
\* fails and nothing writes to the file.
TailStep ==
  \/ TailSeek
  \/ TailSeekCaught
  \/ TailRead
  \/ TailRewind
  \/ TailReturn

NextRun ==
  \/ \E mode \in Modes, pos \in 0..MaxTwiceLen, k \in 1..MaxCount,
        strip \in BOOLEAN, buf \in 1..MaxBuffer :
       TailCall("P", mode, pos, k, strip, buf)
  \/ TailSeek
  \/ TailSeekCaught
  \/ TailRead
  \/ TailRewind
  \/ TailReturn

SpecRun == InitTwice /\ [][NextRun]_vars /\ WF_vars(TailStep)

\* The loggers with handlers of the caller's own on them: set_log_file on a
\* logger that holds any number of handlers.  The log file P is empty at
\* first, Q is empty or does not exist.
CallerHandlers ==
  {StreamHandler("stdout"), StreamHandler("stderr"),
   FileHandler("P"), FileHandler("Q")}

InitHandlers ==
  /\ InitCommon
  /\ procHandlers \in {<<>>, <<StreamHandler("stdout")>>}
  /\ sysHandlers \in {<<>>, <<StreamHandler("stdout")>>}
  /\ \E q \in {NoFile, File(<<>>)} :
       disk = [p \in Paths |-> IF p = "P" THEN File(<<>>) ELSE q]

NextHandlers ==
  \/ \E filenm \in FileNames, logger \in Loggers : set_log_file(filenm, logger)
  \/ \E logger \in Loggers, handler \in CallerHandlers :
       addHandler(logger, handler)

SpecHandlers == InitHandlers /\ [][NextHandlers]_vars

\* redirect_stdout and restore_stdout between changes of the loggers'
\* handlers.  The interpreter started with console streams or, without a
\* console, with None; sys.stdout and sys.stderr are what it started with or
\* streams the host program has installed.  The log files P and Q exist.
InitStdio ==
  /\ InitCore
  /\ procHandlers \in {<<>>, <<StreamHandler("stdout")>>}
  /\ sysHandlers \in {<<>>, <<StreamHandler("stdout")>>}
  /\ disk = [p \in Paths |-> File(<<>>)]
  /\ sys___stdout__ \in {Console("stdout"), NoStream}
  /\ sys___stderr__ \in {Console("stderr"), NoStream}
  /\ sys_stdout \in {sys___stdout__, HostStream("stdout")}
  /\ sys_stderr \in {sys___stderr__, HostStream("stderr")}
  /\ storedstdout = NoStream
  /\ storedstderr = NoStream
  /\ root_is_bokeh \in BOOLEAN
  /\ opens = 0
  /\ NoODArgs
  /\ NoTimer
  /\ NoWells

NextStdio ==
  \/ \E filenm \in {"<stdout>", "P", "Q"}, logger \in Loggers :
       set_log_file(filenm, logger)
  \/ redirect_stdout
  \/ restore_stdout

SpecStdio == InitStdio /\ [][NextStdio]_vars

\* getODArgs between changes of the loggers' files.  The log files P and Q
\* exist.
ArgNames == {"<stdout>", "P", "Q"}

ArgValues ==
  {NoneArgs}
    \cup [none : {FALSE}, logfile : ArgNames \cup {"absent"},
          sysout : ArgNames \cup {"absent"}]

InitArgs ==
  /\ InitCommon
  /\ procHandlers \in {<<>>, <<StreamHandler("stdout")>>}
  /\ sysHandlers \in {<<>>, <<StreamHandler("stdout")>>}
  /\ disk = [p \in Paths |-> File(<<>>)]

NextArgs ==
  \/ \E a \in ArgValues : initLogging(a)
  \/ \E filenm \in ArgNames, logger \in Loggers : set_log_file(filenm, logger)
  \/ \E a \in ArgValues : getODArgs(a)

SpecArgs == InitArgs /\ [][NextArgs]_vars

\* A Timer that is started and never cancelled.  The thread is scheduled
\* again and again and the clock of its wait advances, so a statement of
\* run that can be executed is executed.
InitTimer ==
  /\ InitCommon
  /\ procHandlers = <<>>
  /\ sysHandlers = <<>>
  /\ disk = [p \in Paths |-> NoFile]

NextTimer ==
  \/ \E iv \in 1..MaxInterval : start(iv)
  \/ TimerTest
  \/ TimerTick
  \/ TimerWake
  \/ TimerCall

SpecTimer == InitTimer /\ [][NextTimer]_vars /\ WF_vars(TimerStep)

\* getWellDBList between changes of the survey databases and of the
\* loggers' files.  The log file P exists.
WellLists == {<<>>, <<"w1">>, <<"w1", "w2">>}

WellArgs == {EmptyArgs} \cup {SurveyArgs(s) : s \in Surveys}

InitWell ==
  /\ InitCore
  /\ NoStdio
  /\ NoODArgs
  /\ NoTimer
  /\ procHandlers \in {<<>>, <<StreamHandler("stdout")>>}
  /\ sysHandlers \in {<<>>, <<StreamHandler("stdout")>>}
  /\ disk = [p \in Paths |-> IF p = "P" THEN File(<<>>) ELSE NoFile]
  /\ dblist = <<>>
  /\ db \in [Surveys -> WellLists]
  /\ retlist = <<>>

NextWell ==
  \/ \E filenm \in {"<stdout>", "P"}, logger \in Loggers :
       set_log_file(filenm, logger)
  \/ \E s \in Surveys, l \in WellLists : DbChange(s, l)
  \/ \E reload \in BOOLEAN, a \in WellArgs : getWellDBList(reload, a)

SpecWell == InitWell /\ [][NextWell]_vars

\* One tail call on a file of whole lines that a writer appends whole lines
\* to while the call runs.
GrowRecords == {<<"n">>, <<"a", "n">>, <<"F", "n">>}

RECURSIVE GrowFiles(_)
GrowFiles(n) ==
  IF n = 0 THEN {<<>>}
  ELSE LET prev == GrowFiles(n - 1)
       IN prev \cup {h \in {f \o r : f \in prev, r \in GrowRecords} :
                       Len(h) <= n}

InitGrow ==
  /\ InitCommon
  /\ procHandlers = <<>>
  /\ sysHandlers = <<>>
  /\ \E f \in GrowFiles(MaxGrowLen) :
       disk = [p \in Paths |-> IF p = "P" THEN File(f) ELSE NoFile]

NextGrow ==
  \/ \E mode \in Modes, k \in 1..MaxCount, strip \in BOOLEAN,
        buf \in 1..MaxBuffer :
       TailCall("P", mode, 0, k, strip, buf)
  \/ TailSeek
  \/ TailSeekCaught
  \/ TailRead
  \/ TailRewind
  \/ TailReturn
  \/ \E rec \in GrowRecords : WriterAppend(rec)

SpecGrow == InitGrow /\ [][NextGrow]_vars

\* reset_log_file on a log file that another writer appends lines to between
\* the reset's read and its overwrite.
LogLines == {<<"a", "n">>, <<"n">>, <<"a", "r", "n">>}

NextRace ==
  \/ \E filenm \in {"<stdout>", "P", "Q"}, logger \in Loggers :
       set_log_file(filenm, logger)
  \/ \E n \in 0..MaxKeep : ResetWatched(n)
  \/ ResetRead
  \/ \E rec \in LogLines : WriterAppendInWindow(rec)
  \/ ResetWrite
  \/ ResetAttach

SpecRace == InitLog /\ [][NextRace]_vars

\* A started Timer that another thread may cancel at any point of run.
NextCancel ==
  \/ \E iv \in 1..MaxInterval : start(iv)
  \/ TimerTest
  \/ TimerTick
  \/ TimerWake
  \/ TimerCall
  \/ TimerEnd
  \/ cancel

SpecCancel == InitTimer /\ [][NextCancel]_vars

\* Sequences of redirect_stdout and restore_stdout, one inside the other
\* too, in which no restore comes without a redirect before it.  The loggers
\* keep the handlers they start with: a stream handler, or a handler on the
\* file P for the processing logger and on Q for the standard logger.
InitNested ==
  /\ InitCore
  /\ procHandlers \in {<<StreamHandler("stdout")>>, <<FileHandler("P")>>}
  /\ sysHandlers \in {<<StreamHandler("stdout")>>, <<FileHandler("Q")>>}
  /\ disk = [p \in Paths |-> File(<<>>)]
  /\ sys___stdout__ \in {Console("stdout"), NoStream}
  /\ sys___stderr__ \in {Console("stderr"), NoStream}
  /\ sys_stdout \in {sys___stdout__, HostStream("stdout")}
  /\ sys_stderr \in {sys___stderr__, HostStream("stderr")}
  /\ storedstdout = NoStream
  /\ storedstderr = NoStream
  /\ root_is_bokeh \in BOOLEAN
  /\ opens = 0
  /\ NoODArgs
  /\ NoTimer
  /\ NoWells

NextNested ==
  \/ RedirectCounted
  \/ RestoreCounted

SpecNested == InitNested /\ [][NextNested]_vars

\* getWellDBList calls for different surveys between changes of the survey
\* databases.  No logger has a file, so getODArgs() returns.
NextSurveys ==
  \/ \E s \in Surveys, l \in WellLists : DbChange(s, l)
  \/ \E reload \in BOOLEAN, a \in WellArgs : getWellDBListTracked(reload, a)

SpecSurveys == InitWell /\ [][NextSurveys]_vars

\* ---------------------------------------------------------------- claims
\* The lines of the file the handle is open on, as the handle reads them.
FileLines == SplitLines(View(disk[fp.path].data, fp.mode))

TailReturned == caller = "tail" /\ pc = "tail_done"

\* C1: tail with strip_empty off returns min(lines, L) entries for a file of
\* L lines; it does not raise unless an I/O operation fails, and after a seek
\* that the handle refuses it has read the whole file from byte 0.
C1_TailLength ==
  (caller = "tail" /\ ~strip_empty) =>
    /\ (fault = "none" => pc # "raised")
    /\ (pc = "slice" => lines_found = FileLines)
    /\ (pc = "tail_done" => Len(ret) = Min(lines, Len(FileLines)))

\* C1 witness: a binary handle on a non-empty file shorter than the buffer;
\* the first seek went before byte 0 and every line came back.
C1_Witness ==
  /\ TailReturned /\ ~strip_empty /\ fault = "none"
  /\ fp.mode = "binary"
  /\ Len(disk[fp.path].data) < buffer
  /\ block_counter = -1
  /\ Len(FileLines) >= 1
  /\ Len(ret) = Len(FileLines)

\* C2: tail with strip_empty off returns exactly the final min(lines, L)
\* complete lines of the file, oldest first, whatever the buffer size.
C2_TailIsFinalLines ==
  (TailReturned /\ ~strip_empty /\ fault = "none") =>
    ret = LastN(FileLines, lines)

\* The marker is in the last non-blank line among the last BatchTailLines
\* lines; a blank line is the entry that holds a newline and nothing else.
MarkerInLastNonBlank(ls) ==
  \E i \in 1..Len(ls) :
    /\ i > Len(ls) - BatchTailLines
    /\ ls[i] # <<"n">>
    /\ HasMarker(ls[i])
    /\ \A j \in (i + 1)..Len(ls) : ls[j] = <<"n">>

\* C3: batchIsFinished returns true exactly when the marker is in the last
\* non-blank line among the last 10 lines of the file; so it returns false
\* for an empty file and when the last 10 lines are all blank.
C3_BatchIsFinished ==
  (caller = "batch" /\ pc = "done") =>
    finished = MarkerInLastNonBlank(FileLines)

\* C3 witness: true is returned for a file of more than 10 lines that ends
\* with a blank line.
C3_Witness ==
  /\ caller = "batch" /\ pc = "done" /\ finished
  /\ Len(FileLines) > BatchTailLines
  /\ FileLines[Len(FileLines)] = <<"n">>

\* C5: batchIsFinished on a path without a file returns false; it does not
\* raise.
C5_MissingFileIsFalse ==
  (caller = "batch" /\ pc # "idle" /\ ~disk[logfile].exists) =>
    (pc = "done" /\ finished = FALSE)

NonBlankLines(ls) == SelectSeq(ls, LAMBDA l : l # <<"n">>)

\* C7: with strip_empty set, tail on a text handle returns the last
\* min(lines, N) of the N non-blank lines of the file.
C7_StripBeforeTruncate ==
  (TailReturned /\ strip_empty /\ fp.mode = "text" /\ fault = "none") =>
    ret = LastN(NonBlankLines(FileLines), lines)

\* A line of whitespace only (the newline included).
IsBlank(l) == \A i \in 1..Len(l) : l[i] \in {" ", "n"}

\* C8: with strip_empty set, the result of tail on a text handle has no
\* blank and no whitespace-only entry and is not longer than the result of
\* the same call with strip_empty off.
C8_NoBlankEntries ==
  (TailReturned /\ strip_empty /\ fp.mode = "text" /\ fault = "none") =>
    /\ \A i \in 1..Len(ret) : ~IsBlank(ret[i])
    /\ Len(ret) <= Len(TailResult(lines_found, lines, FALSE, fp.mode))

ResetDone == caller = "reset" /\ pc = "done" /\ logfnm # "none"

\* lst[:k]
FirstN(lst, k) == SubSeq(lst, 1, Min(k, Len(lst)))

\* C4: reset_log_file(keeplines) leaves the log file with its first
\* min(keeplines, L) lines, byte for byte, and nothing else.
C4_ResetKeepsPrefix ==
  ResetDone =>
    disk[logfnm].data = Concat(FirstN(SplitLines(orig), keeplines))

\* C9: when reset_log_file has completed, the processing logger has a file
\* handler on the same path again, opened for append: has_log_file() holds,
\* get_log_file() is that path, and the rewritten file is intact.
C9_ResetReattaches ==
  ResetDone =>
    /\ has_log_file
    /\ get_log_file = logfnm
    /\ \E i \in 1..Len(procHandlers) :
         procHandlers[i] = [kind |-> "file", target |-> logfnm, mode |-> "a"]
    /\ disk[logfnm].data = Concat(keptlines)

\* C9 witness: a reset of the non-empty log file P that kept some lines has
\* completed and the handler on P is attached.
C9_Witness ==
  /\ ResetDone
  /\ logfnm = "P"
  /\ keptlines # <<>>
  /\ procHandlers = <<[kind |-> "file", target |-> "P", mode |-> "a"]>>

NoFileHandler(handlers) ==
  \A i \in 1..Len(handlers) : handlers[i].kind # "file"

\* C10: a call of reset_log_file while the processing logger has no file
\* handler returns at once and leaves the files and both loggers' handler
\* lists as they were.
C10_ResetWithoutFileIsNoOp ==
  [][ (Ready /\ caller' = "reset" /\ NoFileHandler(procHandlers)) =>
        /\ pc' = "done"
        /\ disk' = disk
        /\ procHandlers' = procHandlers
        /\ sysHandlers' = sysHandlers ]_vars

\* C10 witness: reset_log_file has returned on a processing logger whose
\* only handler is a stream handler.
C10_Witness ==
  /\ caller = "reset" /\ pc = "done" /\ logfnm = "none"
  /\ procHandlers = <<StreamHandler("stdout")>>
  /\ \E p \in Paths : disk[p].exists /\ disk[p].data # <<>>

\* Both calls of a pair of tail calls on one handle have returned.
BothReturned == hist.calls = 2 /\ pc = "tail_done"

\* C11: two tail calls in a row on one open handle with the same arguments,
\* nothing written or moved in between, return the same list, and the file
\* holds after them what it held before the first.
C11_TailTwiceSame ==
  (BothReturned /\ ~hist.moved) =>
    /\ ret = hist.ret1
    /\ disk[fp.path].data = hist.data1

\* C11 witness: a binary handle that entered the first call at byte 0 and the
\* second at the end of the file; both calls returned the same two entries
\* after seeking back from the end.
C11_Witness ==
  /\ BothReturned /\ ~hist.moved
  /\ fp.mode = "binary"
  /\ hist.pos1 = 0 /\ hist.pos2 = Len(disk[fp.path].data)
  /\ block_counter < -1
  /\ Len(ret) = 2
  /\ ret = hist.ret1

\* C20: the result of tail does not depend on where the handle stands when
\* the call is entered: two calls with the same arguments on the same file
\* return the same list from any two positions.
C20_TailIgnoresPosition ==
  BothReturned => ret = hist.ret1

\* C20 witness: a text handle, whose seek from the end is refused, entered
\* once past the first line and once at byte 0; both calls returned every
\* line.
C20_Witness ==
  /\ BothReturned
  /\ fp.mode = "text"
  /\ hist.pos1 > hist.pos2 /\ hist.pos2 = 0 /\ hist.moved
  /\ Len(ret) >= 2
  /\ ret = hist.ret1

\* C12: every tail call on a finite file that nothing writes to, with lines
\* and _buffer at least 1, returns: the loop is left after finitely many
\* passes.
C12_TailTerminates == (caller = "tail" /\ pc = "while") ~> (pc = "tail_done")

\* C12 witness: a binary handle whose call went round the loop four times,
\* one byte further back each time, before it returned.
C12_Witness ==
  /\ TailReturned
  /\ fp.mode = "binary"
  /\ buffer = 1
  /\ block_counter <= -5

\* The handler set_log_file is to attach for a name it accepts.
NewHandler(filenm) ==
  IF filenm \in {"<stdout>", "stdout"}
  THEN [kind |-> "stream", target |-> "stdout", mode |-> "-"]
  ELSE IF filenm = "<stderr>"
       THEN [kind |-> "stream", target |-> "stderr", mode |-> "-"]
       ELSE [kind |-> "file", target |-> filenm, mode |-> "a"]

\* C13: after set_log_file(filenm, logger) with filenm one of '<stdout>',
\* 'stdout', '<stderr>' or the path of an existing file, the logger holds
\* exactly one handler, the new one, however many it held before.
C13_SetLeavesOneHandler ==
  [][\A filenm \in {"<stdout>", "stdout", "<stderr>", "P", "Q"},
        logger \in Loggers :
       (set_log_file(filenm, logger)
          /\ (filenm \in {"<stdout>", "stdout", "<stderr>"}
                \/ isfile(disk, filenm)))
         => (IF logger = "proc" THEN procHandlers' ELSE sysHandlers')
              = <<NewHandler(filenm)>>]_vars

C15_ODArgsNamesLogFiles ==
  caller = "getODArgs" =>
    /\ pc # "raised"
    /\ odargs.proclog = (IF has_log_file THEN get_log_file ELSE "absent")
    /\ odargs.syslog = (IF has_stdlog_file THEN get_stdlog_file ELSE "absent")

\* C16: a started Timer that nothing cancels invokes its function again and
\* again without end, every invocation after one full wait of the interval,
\* and its thread never ends.
C16_TimerRestarts ==
  /\ [](timer_pc \notin {"after", "ended"})
  /\ [](timer_pc = "call" => (elapsed = interval /\ nwaits = ncalls + 1))
  /\ [](timer_pc = "test" => nwaits = ncalls)
  /\ (timer_pc # "created") ~> (timer_pc = "call")

\* C16 witness: the timer is about to invoke its function for the third
\* time, after a third wait of three ticks.
C16_Witness ==
  /\ timer_pc = "call"
  /\ interval = 3 /\ elapsed = 3
  /\ ncalls = 2 /\ nwaits = 3

\* C17: getWellDBList with reload set always asks the database and returns
\* and caches the list it gets; without reload it returns a non-empty cached
\* list without asking the database, and asks the database when nothing is
\* cached.
C17_WellListCache ==
  caller = "getWellDBList" =>
    /\ pc # "raised"
    /\ IF hist.reload \/ hist.cached0 = <<>>
       THEN /\ hist.queried
            /\ retlist = db[hist.survey]
            /\ dblist = db[hist.survey]
       ELSE /\ ~hist.queried
            /\ retlist = hist.cached0
            /\ dblist = hist.cached0

\* e is the line l or the end of it.
IsSuffix(e, l) ==
  /\ Len(e) >= 1
  /\ Len(e) <= Len(l)
  /\ SubSeq(l, Len(l) - Len(e) + 1, Len(l)) = e

\* The entries are found in this order among the lines, each entry a line or
\* the end of one.
RECURSIVE InFileOrder(_, _)
InFileOrder(entries, lns) ==
  IF entries = <<>> THEN TRUE
  ELSE IF lns = <<>> THEN FALSE
       ELSE \/ IsSuffix(Head(entries), Head(lns))
               /\ InFileOrder(Tail(entries), Tail(lns))
            \/ InFileOrder(entries, Tail(lns))

C19_AppendsInWindowLost ==
  (caller = "reset" /\ hist.appended # <<>>) =>
    /\ pc # "raised"
    /\ pc = "done" =>
         /\ disk[logfnm].data = Concat(keptlines)
         /\ keptlines = FirstN(SplitLines(View(orig, "text")), Len(keptlines))

\* C19 witness: a reset of P that kept two lines has completed; the two
\* lines a writer appended in the window are not in the file.
C19_Witness ==
  /\ ResetDone
  /\ Len(hist.appended) >= 3
  /\ Len(keptlines) = 2
  /\ disk[logfnm].data = Concat(keptlines)
  /\ Len(disk[logfnm].data) < Len(orig) + Len(hist.appended)

\* C21: once cancel() has set the finished event of a running Timer, no
\* invocation of the function starts, also when the event is set while the
\* thread waits for the interval to pass.
C21_NoCallAfterCancel == [][TimerCall => ~self_finished]_vars

\* C22: after a sequence of redirect_stdout and restore_stdout calls in
\* which no restore comes before its redirect and every redirect has been
\* restored, nested ones included, sys.stdout and sys.stderr are the streams
\* that were in place before the first redirect, and storedstdout and
\* storedstderr are None.
C22_BalancedRestores ==
  (hist.redirects > 0 /\ hist.depth = 0) =>
    /\ sys_stdout = hist.first_out
    /\ sys_stderr = hist.first_err
    /\ storedstdout = NoStream
    /\ storedstderr = NoStream

\* C23: the list that getWellDBList(reload=False, args) returns is one the
\* database returned for the survey that args names; a list fetched and
\* cached for one survey is never returned to a call naming another.
C23_CachePerSurvey ==
  (caller = "getWellDBList" /\ pc = "done" /\ ~hist.reload) =>
    hist.fetched_for = hist.survey

=============================================================================
